---- MODULE Spec2Model ----
(***************************************************************************)
(* active-handles (index.js): the resolution pass over the live handles    *)
(* (activeHandles -> resolveHandles -> resolveHandle -> functionInfo), the *)
(* printer (print) and the setInterval hook (hookSetInterval).             *)
(*                                                                         *)
(* The pass is synchronous; it is modelled with one step per loop          *)
(* iteration (the for loop of resolveHandle, the forEach over the socket   *)
(* record's keys, the forEach over the handles, the for loop of print).    *)
(* A thrown TypeError leaves every loop and ends the call: pc = "raised".  *)
(***************************************************************************)
EXTENDS Integers, Sequences, FiniteSets, TLC

VARIABLES
  heap,             \* the raw handle records and chain nodes, by node id
  handles,          \* what process._getActiveHandles() returns
  origin,           \* what getFunctionLocation answers, by function id
  pc,               \* position in print() / activeHandles()
  hi,               \* index of the handle resolveHandles is at
  next,             \* resolveHandle: the loop variable of the chain walk
  visited,          \* resolveHandle: visited
  resolvedFns,      \* resolveHandle: resolvedFns
  resolved,         \* resolveHandle: resolved
  addInfoType,      \* resolveHandle: the property `type` of the closure addInfo
  ki,               \* resolveHandle: index into Object.keys(handle._handle)
  resolvedHandles,  \* resolveHandles: resolvedHandles
  returned,         \* the lists resolveHandle has returned so far, in call order
  printed,          \* print: printed (locString -> count)
  out,              \* print: what console.log was called with, in order
  pi,               \* print: the loop index i (1-based)
  version,          \* process.version, split at the dots
  hookLayers,       \* how many setIntervalHook wrappers timers.setInterval carries
  hookCalls,        \* how many times hookSetInterval was called
  fnArg,            \* the callable functionInfo is applied to (InfoSpec)
  infoResult        \* what that call gave (InfoSpec)

vars == <<heap, handles, origin, pc, hi, next, visited, resolvedFns, resolved,
          addInfoType, ki, resolvedHandles, returned, printed, out, pi,
          version, hookLayers, hookCalls, fnArg, infoResult>>

passVars == <<heap, handles, origin, pc, hi, next, visited, resolvedFns, resolved,
              addInfoType, ki, resolvedHandles, returned, printed, out, pi>>
shimVars == <<version, hookLayers, hookCalls>>
infoVars == <<fnArg, infoResult>>

(***************************************************************************)
(* Bounds                                                                  *)
(***************************************************************************)
NumNodes == 2
MaxHandles == 2
MaxComponent == 7
MaxHookCalls == 2
MaxLine == 2

Nodes == 1..NumNodes
NoNode == 0

(***************************************************************************)
(* Values.  An absent / undefined property is None, a present one Some(x). *)
(***************************************************************************)
None == <<>>
Some(x) == <<x>>

Nil == [tag |-> "nil"]
Fn(id, name, source) == [tag |-> "fn", id |-> id, name |-> name, source |-> source]

NativeSource == "function () { [native code] }"

fnA == Fn("A", "tick", "function tick() { }")
fnB == Fn("B", "", "function () { }")
fnC == Fn("C", "onTimeout", "function onTimeout() { }")
fnD == Fn("D", "", NativeSource)

Range(s) == {s[i] : i \in DOMAIN s}
InSeq(x, s) == \E i \in DOMAIN s : s[i] = x
Min(a, b) == IF a < b THEN a ELSE b

Location(file, line, column, inferredName) ==
  [file |-> file, line |-> line, column |-> column, inferredName |-> inferredName]

\* what the runtime knows of the callables of the pass: fnC has no location
PassOrigin ==
  [id \in {"A", "B", "C", "D"} |->
     CASE id = "A" -> Some(Location("app.js", 2, 0, ""))
       [] id = "B" -> Some(Location("app.js", 0, 1, "onData"))
       [] id = "C" -> None
       [] id = "D" -> Some(Location("net.js", 1, 1, ""))]

(***************************************************************************)
(* functionInfo                                                            *)
(***************************************************************************)
Raise == [raised |-> TRUE]
Return(v) == [raised |-> FALSE, value |-> v]

isFunction(x) == x.tag = "fn"

getFunctionLocation(fn) == origin[fn.id]

\* cardinal.highlight: throws on text it cannot parse, else numbers the lines
cardinalHighlight(s) ==
  IF \E n \in 0..Len(s) : SubSeq(s, n + 1, Len(s)) = NativeSource
  THEN Raise
  ELSE Return("1: " \o s)

highlightSource(s) ==
  LET r == cardinalHighlight(s) IN IF r.raised THEN s ELSE r.value

functionInfo(fn) ==
  IF fn.tag = "nil"
  THEN Raise  \* fn.toString() of undefined / null
  ELSE
    LET src == fn.source
        got == getFunctionLocation(fn)
        location == IF got # None THEN Some([got[1] EXCEPT !.line = @ + 1]) ELSE None
        anonymous == fn.name = ""
    IN IF anonymous /\ location = None
       THEN Raise  \* location.inferredName of undefined
       ELSE
         LET name == IF anonymous
                     THEN IF location[1].inferredName # ""
                          THEN location[1].inferredName
                          ELSE "__unknown_function_name__"
                     ELSE fn.name
             highlighted == IF anonymous
                            THEN highlightSource(name \o " = " \o src)
                            ELSE highlightSource(src)
         IN Return([fn |-> fn, name |-> name, source |-> src,
                    highlighted |-> highlighted, location |-> location,
                    handle |-> None, msecs |-> None, type |-> None, fd |-> None])

(***************************************************************************)
(* Raw records.  A node is a raw handle record or a node of an idle chain: *)
(* its _idleNext link, its timer fields and its _handle (socket) record.   *)
(***************************************************************************)
TimerFields(repeat, wrappedCallback, hasOnTimeout, onTimeout, idleTimeout) ==
  [repeat |-> repeat, wrappedCallback |-> wrappedCallback,
   hasOnTimeout |-> hasOnTimeout, onTimeout |-> onTimeout,
   idleTimeout |-> idleTimeout]

Plain == TimerFields(Nil, Nil, FALSE, Nil, None)
Interval == TimerFields(fnA, fnB, TRUE, fnC, Some(1000))
Hooked == TimerFields(Nil, fnB, TRUE, fnC, Some(500))
Timeout == TimerFields(Nil, Nil, TRUE, fnC, Some(250))
Cleared == TimerFields(Nil, Nil, TRUE, Nil, Some(250))

Field(key, value) == [key |-> key, value |-> value]
Socket(fields, fd) == Some([fields |-> fields, fd |-> fd])

NoSock == None
Listener == Socket(<<Field("onconnection", fnA)>>, Some(7))
Connection == Socket(<<Field("owner", Nil), Field("onread", fnB)>>, Some(8))
Pipe == Socket(<<Field("oncomplete", fnD)>>, Some(9))
Shared == Socket(<<Field("onread", fnC), Field("onend", fnC)>>, None)
SharedFd == Socket(<<Field("onread", fnC), Field("onend", fnC)>>, Some(7))
Stdin == Socket(<<Field("onread", fnB)>>, Some(0))

Node(idleNext, timer, sock) ==
  [idleNext |-> idleNext, repeat |-> timer.repeat,
   wrappedCallback |-> timer.wrappedCallback,
   hasOnTimeout |-> timer.hasOnTimeout, onTimeout |-> timer.onTimeout,
   idleTimeout |-> timer.idleTimeout, handle |-> sock]

RECURSIVE ReachFrom(_, _)
ReachFrom(links, S) ==
  LET T == S \cup ({links[n] : n \in S} \ {NoNode})
  IN IF T = S THEN S ELSE ReachFrom(links, T)

\* the live handles are distinct objects; they are numbered in list order
HandleLists == {[i \in 1..k |-> i] : k \in 0..Min(MaxHandles, NumNodes)}

\* The records the pass can reach from the handle list.  A node no handle
\* leads to is blank, and only a listed handle carries a socket record
\* (resolveHandle reads _handle off the handle it was given, never off a
\* chain node).
InitHeap(TimerMenu, SockMenu) ==
  \E hs \in HandleLists :
  \E links \in [Nodes -> Nodes \cup {NoNode}] :
    LET live == ReachFrom(links, Range(hs)) IN
    /\ \A n \in Nodes \ live : links[n] = NoNode
    /\ \E timers \in [Nodes -> TimerMenu] :
         /\ \A n \in Nodes \ live : timers[n] = Plain
         /\ \E socks \in [Nodes -> SockMenu] :
              /\ \A n \in Nodes \ Range(hs) : socks[n] = NoSock
              /\ handles = hs
              /\ heap = [n \in Nodes |-> Node(links[n], timers[n], socks[n])]

IdleShim == version = <<>> /\ hookLayers = 0 /\ hookCalls = 0
IdleInfo == fnArg = Nil /\ infoResult = None

InitPass(TimerMenu, SockMenu) ==
  /\ InitHeap(TimerMenu, SockMenu)
  /\ origin = PassOrigin
  /\ pc = "start"
  /\ hi = 1
  /\ next = NoNode
  /\ visited = <<>>
  /\ resolvedFns = <<>>
  /\ resolved = <<>>
  /\ addInfoType = None
  /\ ki = 1
  /\ resolvedHandles = <<>>
  /\ returned = <<>>
  /\ printed = <<>>
  /\ out = <<>>
  /\ pi = 1
  /\ IdleShim
  /\ IdleInfo

Init == InitPass({Plain, Interval, Hooked, Timeout, Cleared}, {NoSock, Listener})

(***************************************************************************)
(* resolveHandle                                                           *)
(***************************************************************************)
handle == heap[handles[hi]]

\* a guard that remembers only the node before
wasVisitedLastOnly(h) == visited # <<>> /\ visited[Len(visited)] = h

wasVisited(h) == InSeq(h, visited)

\* addInfo(fn): info is what it returns (None for undefined); fns and res
\* are resolvedFns and resolved after the call
addInfo(fn) ==
  IF InSeq(fn, resolvedFns)
  THEN [raised |-> FALSE, info |-> None, fns |-> resolvedFns, res |-> resolved]
  ELSE LET r == functionInfo(fn) IN
       IF r.raised
       THEN [raised |-> TRUE, info |-> None,
             fns |-> Append(resolvedFns, fn), res |-> resolved]
       ELSE [raised |-> FALSE, info |-> Some(r.value),
             fns |-> Append(resolvedFns, fn), res |-> Append(resolved, r.value)]

\* a property assignment on the info addInfo has just pushed
SetLast(res, info) == [res EXCEPT ![Len(res)] = info]

qualifies(n) ==
  isFunction(n.repeat) \/ isFunction(n.wrappedCallback) \/ n.hasOnTimeout

\* a selection that prefers the wrapped callback to the repeat callback
selectFnWrappedFirst(n) ==
  IF isFunction(n.wrappedCallback) THEN n.wrappedCallback
  ELSE IF isFunction(n.repeat) THEN n.repeat ELSE n.onTimeout

selectFn(n) ==
  IF isFunction(n.repeat) THEN n.repeat
  ELSE IF isFunction(n.wrappedCallback) THEN n.wrappedCallback ELSE n.onTimeout

timerType(n) ==
  IF isFunction(n.wrappedCallback) \/ isFunction(n.repeat)
  THEN "setInterval" ELSE "setTimeout"

\* a walk that starts at the handle itself
firstNodeSelf(h) == h

\* the node the walk starts at, for the handle with id h
firstNode(h) == heap[h].idleNext

activeHandles ==
  /\ pc = "start"
  /\ IF Len(handles) = 0
     THEN pc' = "print"
     ELSE pc' = "handle"
  /\ UNCHANGED <<heap, handles, origin, hi, next, visited, resolvedFns, resolved,
                 addInfoType, ki, resolvedHandles, returned, printed, out, pi>>
  /\ UNCHANGED <<shimVars, infoVars>>

resolveCurrentHandle ==
  /\ pc = "handle"
  /\ visited' = <<>>
  /\ resolvedFns' = <<>>
  /\ resolved' = <<>>
  /\ addInfoType' = None
  /\ next' = firstNode(handles[hi])
  /\ ki' = 1
  /\ pc' = "walk"
  /\ UNCHANGED <<heap, handles, origin, hi, resolvedHandles, returned, printed, out, pi>>
  /\ UNCHANGED <<shimVars, infoVars>>

walkStep ==
  /\ pc = "walk"
  /\ next # NoNode
  /\ ~wasVisited(next)
  /\ visited' = Append(visited, next)
  /\ LET n == heap[next] IN
     IF ~qualifies(n)
     THEN /\ next' = n.idleNext
          /\ UNCHANGED <<pc, resolvedFns, resolved>>
     ELSE LET a == addInfo(selectFn(n)) IN
          IF a.raised \/ a.info = None
          THEN \* functionInfo threw, or addedInfo is undefined
               /\ pc' = "raised"
               /\ resolvedFns' = a.fns
               /\ UNCHANGED <<next, resolved>>
          ELSE /\ resolvedFns' = a.fns
               /\ resolved' = SetLast(a.res, [a.info[1] EXCEPT
                                 !.msecs = n.idleTimeout,
                                 !.type = Some(timerType(n))])
               /\ next' = n.idleNext
               /\ UNCHANGED pc
  /\ UNCHANGED <<heap, handles, origin, hi, addInfoType, ki, resolvedHandles,
                 returned, printed, out, pi>>
  /\ UNCHANGED <<shimVars, infoVars>>

walkExit ==
  /\ pc = "walk"
  /\ ~(next # NoNode /\ ~wasVisited(next))
  /\ pc' = IF handle.handle # None /\ Len(handle.handle[1].fields) > 0
           THEN "keys" ELSE "return"
  /\ UNCHANGED <<heap, handles, origin, hi, next, visited, resolvedFns, resolved,
                 addInfoType, ki, resolvedHandles, returned, printed, out, pi>>
  /\ UNCHANGED <<shimVars, infoVars>>

socketType(key) ==
  CASE key = "onconnection" -> Some("net connection")
    [] key = "onread" -> Some("net client connection")
    [] OTHER -> None

addHandleFn ==
  /\ pc = "keys"
  /\ LET sock == handle.handle[1]
         key == sock.fields[ki].key
         value == sock.fields[ki].value
         hasFd == sock.fd # None /\ sock.fd[1] # 0
         after == IF ki = Len(sock.fields) THEN "return" ELSE "keys"
     IN IF ~isFunction(value)
        THEN /\ pc' = after
             /\ UNCHANGED <<resolvedFns, resolved, addInfoType>>
        ELSE LET a == addInfo(value) IN
             IF a.raised \/ (hasFd /\ a.info = None)
             THEN /\ pc' = "raised"
                  /\ resolvedFns' = a.fns
                  /\ UNCHANGED <<resolved, addInfoType>>
             ELSE /\ pc' = after
                  /\ resolvedFns' = a.fns
                  /\ IF hasFd
                     THEN /\ resolved' = SetLast(a.res, [a.info[1] EXCEPT
                                           !.fd = sock.fd,
                                           !.type = socketType(key)])
                          /\ addInfoType' = IF socketType(key) = None
                                            THEN Some("unknown") ELSE addInfoType
                     ELSE /\ resolved' = a.res
                          /\ UNCHANGED addInfoType
  /\ ki' = ki + 1
  /\ UNCHANGED <<heap, handles, origin, hi, next, visited, resolvedHandles,
                 returned, printed, out, pi>>
  /\ UNCHANGED <<shimVars, infoVars>>

(***************************************************************************)
(* resolveHandles                                                          *)
(***************************************************************************)
\* a push that drops a callable an earlier handle already gave
pushHandleOnce(acc, h) ==
  IF \E i \in DOMAIN acc : acc[i].fn = h.fn THEN acc ELSE Append(acc, h)

pushHandle(acc, h) == Append(acc, h)

RECURSIVE forEachPush(_, _)
forEachPush(acc, list) ==
  IF list = <<>> THEN acc
  ELSE forEachPush(pushHandle(acc, Head(list)), Tail(list))

pushHandles ==
  /\ pc = "return"
  /\ resolvedHandles' = forEachPush(resolvedHandles, resolved)
  /\ returned' = Append(returned, resolved)
  /\ hi' = hi + 1
  /\ pc' = IF hi = Len(handles) THEN "print" ELSE "handle"
  /\ UNCHANGED <<heap, handles, origin, next, visited, resolvedFns, resolved,
                 addInfoType, ki, printed, out, pi>>
  /\ UNCHANGED <<shimVars, infoVars>>

(***************************************************************************)
(* print                                                                   *)
(***************************************************************************)
\* format('%s:%d:%d', loc.file, loc.line, loc.column)
locString(h) ==
  IF h.location # None
  THEN h.location[1].file \o ":" \o ToString(h.location[1].line)
         \o ":" \o ToString(h.location[1].column)
  ELSE "Unknown location"

\* printed[l] || 0
printedCount(p, l) == IF l \in DOMAIN p THEN p[l] ELSE 0

\* a count that is never incremented
countAfterStuck(n) == n

countAfter(n) == n + 1

highlightString(h, count) ==
  IF count # 0
  THEN "Count: " \o ToString(count + 1) \o ". Source printed above"
  ELSE h.highlighted

fdString(h) ==
  IF h.fd # None /\ h.fd[1] # 0 THEN ", fd = " \o ToString(h.fd[1]) ELSE ""

printEntry ==
  /\ pc = "print"
  /\ pi <= Len(resolvedHandles)
  /\ LET h == resolvedHandles[pi]
         l == locString(h)
         count == printedCount(printed, l)
     IN /\ out' = Append(out, [name |-> h.name \o ":",
                               location |-> l,
                               type |-> IF h.type # None THEN h.type[1]
                                        ELSE "unknown type",
                               fd |-> fdString(h),
                               source |-> highlightString(h, count)])
        /\ printed' = [x \in DOMAIN printed \cup {l} |->
                         IF x = l THEN countAfter(count) ELSE printed[x]]
  /\ pi' = pi + 1
  /\ UNCHANGED <<heap, handles, origin, pc, hi, next, visited, resolvedFns,
                 resolved, addInfoType, ki, resolvedHandles, returned>>
  /\ UNCHANGED <<shimVars, infoVars>>

printReturn ==
  /\ pc = "print"
  /\ pi > Len(resolvedHandles)
  /\ pc' = "done"
  /\ UNCHANGED <<heap, handles, origin, hi, next, visited, resolvedFns, resolved,
                 addInfoType, ki, resolvedHandles, returned, printed, out, pi>>
  /\ UNCHANGED <<shimVars, infoVars>>

NextPass ==
  \/ activeHandles
  \/ resolveCurrentHandle
  \/ walkStep
  \/ walkExit
  \/ addHandleFn
  \/ pushHandles
  \/ printEntry
  \/ printReturn

\* print() over live handles that are timers (cleared ones among them) and
\* listening servers
Spec == Init /\ [][NextPass]_vars

\* the same call over one-shot timers and listening servers; the pass is
\* synchronous, so a step that can be taken is taken
InitWalk == InitPass({Plain, Timeout}, {NoSock, Listener})

WalkSpec == InitWalk /\ [][NextPass]_vars /\ WF_vars(NextPass)

\* print() over live handles that are sockets of every shape and one-shot
\* timers
InitSocket ==
  InitPass({Plain, Timeout},
           {NoSock, Listener, Connection, Pipe, Shared, SharedFd, Stdin})

SocketSpec == InitSocket /\ [][NextPass]_vars

(***************************************************************************)
(* hookSetInterval                                                         *)
(***************************************************************************)
IdlePass ==
  /\ heap = [n \in Nodes |-> Node(NoNode, Plain, NoSock)]
  /\ handles = <<>>
  /\ pc = "idle"
  /\ hi = 1
  /\ next = NoNode
  /\ visited = <<>>
  /\ resolvedFns = <<>>
  /\ resolved = <<>>
  /\ addInfoType = None
  /\ ki = 1
  /\ resolvedHandles = <<>>
  /\ returned = <<>>
  /\ printed = <<>>
  /\ out = <<>>
  /\ pi = 1

\* process.version without its "v", split at the dots: two or three numbers
Versions == UNION {[1..k -> 0..MaxComponent] : k \in 2..3}

versionGreaterEqualOneSixTwo(digits) ==
  IF Len(digits) # 3 THEN FALSE
  ELSE IF digits[1] < 1 \/ digits[2] < 6 \/ digits[3] < 2 THEN FALSE
  ELSE TRUE

hookSetInterval ==
  /\ hookCalls < MaxHookCalls
  /\ hookCalls' = hookCalls + 1
  /\ hookLayers' = IF versionGreaterEqualOneSixTwo(version)
                   THEN hookLayers ELSE hookLayers + 1
  /\ UNCHANGED version
  /\ UNCHANGED <<passVars, infoVars>>

InitShim ==
  /\ IdlePass
  /\ origin = PassOrigin
  /\ IdleInfo
  /\ version \in Versions
  /\ hookLayers = 0
  /\ hookCalls = 0

NextShim == hookSetInterval

ShimSpec == InitShim /\ [][NextShim]_vars

(***************************************************************************)
(* functionInfo on its own                                                 *)
(***************************************************************************)
InfoFns ==
  {Fn("X", name, source) : name \in {"", "tick"},
                           source \in {"function () { }", NativeSource}}

Locations ==
  {None} \cup
  {Some(Location("app.js", line, column, inferredName)) :
     line \in 0..MaxLine, column \in 0..MaxLine, inferredName \in {"", "onData"}}

functionInfoCall ==
  /\ infoResult = None
  /\ infoResult' = Some(functionInfo(fnArg))
  /\ UNCHANGED fnArg
  /\ UNCHANGED <<passVars, shimVars>>

InitInfo ==
  /\ IdlePass
  /\ IdleShim
  /\ fnArg \in InfoFns
  /\ origin \in [{"X"} -> Locations]
  /\ infoResult = None

NextInfo == functionInfoCall

InfoSpec == InitInfo /\ [][NextInfo]_vars

(***************************************************************************)
(* Properties                                                              *)
(***************************************************************************)
links == [n \in Nodes |-> heap[n].idleNext]

\* the nodes on the chain that starts at node n (none when n is no node)
Chain(n) == IF n = NoNode THEN {} ELSE ReachFrom(links, {n})

\* the handle resolveHandle is working on, while pc is inside that call
current == handles[hi]
InResolve == pc \in {"walk", "keys", "return"}
WalkOver == pc \in {"keys", "return"}

Last(s) == s[Len(s)]

NoRevisit == \A i, j \in DOMAIN visited : visited[i] = visited[j] => i = j

\* C2: the chain walk of resolveHandle ends, on cyclic chains too, and no
\* chain node is examined more than once during it.
C2_WalkTerminates == [](NoRevisit) /\ ((pc = "walk") ~> (pc # "walk"))

\* a walk over a chain with a cycle has ended after examining two nodes
C2_Witness ==
  /\ WalkOver
  /\ firstNode(current) # NoNode
  /\ \A n \in Chain(firstNode(current)) : links[n] # NoNode
  /\ Len(visited) = 2

\* the callback the claim names for a qualifying node
ClaimedCallback(n) ==
  IF n.repeat.tag = "fn" THEN n.repeat
  ELSE IF n.wrappedCallback.tag = "fn" THEN n.wrappedCallback ELSE n.onTimeout

ClaimedQualifies(n) ==
  n.repeat.tag = "fn" \/ n.wrappedCallback.tag = "fn" \/ n.hasOnTimeout

ClaimedTimerType(n) ==
  IF n.repeat.tag = "fn" \/ n.wrappedCallback.tag = "fn"
  THEN "setInterval" ELSE "setTimeout"

\* C9: an iteration of the chain walk that examines a qualifying node and
\* does not throw appends exactly one entry: its callback is the repeat
\* callback if callable, else the wrapped callback if callable, else the
\* _onTimeout callback; its type is setInterval (repeating timer) exactly
\* when the repeat or wrapped callback was used and setTimeout (one-shot
\* timer) otherwise; its msecs is that node's _idleTimeout.  An iteration
\* over a node that does not qualify appends nothing.
C9_TimerEntry ==
  [][(pc = "walk" /\ pc' = "walk" /\ visited' # visited) =>
       LET n == heap[next] IN
       IF ClaimedQualifies(n)
       THEN /\ Len(resolved') = Len(resolved) + 1
            /\ SubSeq(resolved', 1, Len(resolved)) = resolved
            /\ Last(resolved').fn = ClaimedCallback(n)
            /\ Last(resolved').type = Some(ClaimedTimerType(n))
            /\ Last(resolved').msecs = n.idleTimeout
       ELSE resolved' = resolved]_vars

\* one walk gave a repeating-timer entry from a repeat callback and then a
\* one-shot entry from an _onTimeout callback
C9_Witness ==
  /\ pc = "walk"
  /\ Len(resolved) = 2
  /\ resolved[1].fn = fnA /\ resolved[1].type = Some("setInterval")
  /\ resolved[1].msecs = Some(1000)
  /\ resolved[2].fn = fnC /\ resolved[2].type = Some("setTimeout")
  /\ resolved[2].msecs = Some(250)

\* visited is the chain that starts at node n, link by link
FollowsChainFrom(n) ==
  /\ visited # <<>> => visited[1] = n
  /\ \A i \in 1..(Len(visited) - 1) : visited[i + 1] = links[visited[i]]

\* C10 as amended: the chain walk starts at the node the handle's next link
\* names, not at the handle: the nodes examined are that node, its successor
\* and so on, and a walk that has run to its end has examined every node up
\* to the end of the chain or the first repeated node.  The starting handle
\* is examined only when the chain leads back to it.
C10_WalkStartsAtSuccessor ==
  /\ (InResolve \/ pc = "raised") => FollowsChainFrom(links[current])
  /\ WalkOver =>
       /\ (visited = <<>>) = (links[current] = NoNode)
       /\ visited # <<>> =>
            (links[Last(visited)] = NoNode \/ InSeq(links[Last(visited)], visited))
       /\ InSeq(current, visited) = (current \in Chain(links[current]))

\* the walk for a handle that carries timer fields and heads a chain that
\* ends has run to its end without examining the handle: no entry
C10_Witness ==
  /\ pc = "return"
  /\ links[current] # NoNode
  /\ ClaimedQualifies(heap[current])
  /\ ~InSeq(current, visited)
  /\ links[Last(visited)] = NoNode
  /\ resolved = <<>>

\* C10 as the claim states it: a handle with a next link is itself the first
\* node the walk examines
C10_WalkStartsAtHandle ==
  (WalkOver /\ links[current] # NoNode) =>
    (visited # <<>> /\ visited[1] = current)

RECURSIVE Flatten(_)
Flatten(lists) ==
  IF lists = <<>> THEN <<>> ELSE Head(lists) \o Flatten(Tail(lists))

\* the callables a raw handle holds: the callbacks of the qualifying nodes
\* of its chain and the callable fields of its socket record
DiscoverableFns(h) ==
  {ClaimedCallback(heap[n]) : n \in {m \in Chain(links[h]) : ClaimedQualifies(heap[m])}}
  \cup (IF heap[h].handle = None THEN {}
        ELSE {f.value : f \in {g \in Range(heap[h].handle[1].fields) : g.value.tag = "fn"}})

FnsOf(list) == {list[k].fn : k \in DOMAIN list}

\* C4: the list resolveHandles builds is the concatenation, in the order of
\* the handles, of the lists resolveHandle returned for them, the i-th list
\* holding the callables of the i-th handle; nothing is dropped across
\* handles, and no handles give the empty list.
C4_Concatenation ==
  /\ resolvedHandles = Flatten(returned)
  /\ \A i \in DOMAIN returned : FnsOf(returned[i]) = DiscoverableFns(handles[i])
  /\ pc \in {"print", "done"} => Len(returned) = Len(handles)
  /\ (pc \in {"print", "done"} /\ handles = <<>>) => resolvedHandles = <<>>

\* two handles each gave one entry, both for the same callable
C4_Witness ==
  /\ pc = "done"
  /\ Len(handles) = 2
  /\ Len(returned[1]) = 1 /\ Len(returned[2]) = 1
  /\ Len(resolvedHandles) = 2
  /\ resolvedHandles[1].fn = resolvedHandles[2].fn

\* the location string the claim gives an entry
ClaimedLocString(h) ==
  IF h.location = None THEN "Unknown location"
  ELSE h.location[1].file \o ":" \o ToString(h.location[1].line)
         \o ":" \o ToString(h.location[1].column)

EarlierSame(i) ==
  Cardinality({j \in 1..(i - 1) :
     ClaimedLocString(resolvedHandles[j]) = ClaimedLocString(resolvedHandles[i])})

\* C7: the i-th block print emits carries the entry's highlighted source
\* exactly when no earlier entry has the same location string, and else
\* "Count: N. Source printed above" with N the number of earlier entries with
\* that string plus one; when print is done, the count kept for a location
\* string is the number of entries that have it.
C7_PrintCounts ==
  /\ \A i \in DOMAIN out :
       out[i].source =
         IF EarlierSame(i) = 0 THEN resolvedHandles[i].highlighted
         ELSE "Count: " \o ToString(EarlierSame(i) + 1) \o ". Source printed above"
  /\ pc = "done" =>
       /\ Len(out) = Len(resolvedHandles)
       /\ DOMAIN printed = {ClaimedLocString(resolvedHandles[i]) : i \in DOMAIN resolvedHandles}
       /\ \A l \in DOMAIN printed :
            printed[l] = Cardinality({i \in DOMAIN resolvedHandles :
                                        ClaimedLocString(resolvedHandles[i]) = l})

\* print is done: full source for the first entry, the placeholder for a
\* second entry at the same location
C7_Witness ==
  /\ pc = "done"
  /\ Len(out) = 2
  /\ out[1].source = resolvedHandles[1].highlighted
  /\ out[2].source = "Count: 2. Source printed above"
  /\ out[2].location = "app.js:3:0"

\* a chain node whose _onTimeout property is present and whose callback,
\* as selected, is not callable
Malformed(n) ==
  /\ n.hasOnTimeout
  /\ n.repeat.tag # "fn" /\ n.wrappedCallback.tag # "fn" /\ n.onTimeout.tag # "fn"

\* the call threw inside the chain walk (no socket field was looked at yet)
RaisedInWalk == pc = "raised" /\ ki = 1 /\ visited # <<>>

\* C1: resolving a raw handle never throws at a malformed record: a chain
\* node whose timeout marker is present and whose callback is not callable
\* is skipped.
C1_MalformedSkipped == ~(RaisedInWalk /\ Malformed(heap[Last(visited)]))

\* the value addInfo was given when the call threw
RaisingCallback ==
  IF ki = 1 THEN ClaimedCallback(heap[Last(visited)])
  ELSE heap[current].handle[1].fields[ki - 1].value

\* C3: a callable found a second time while one raw handle is resolved is
\* skipped: the call does not throw there, and the list it returns holds
\* each callable once.
C3_DuplicateSkipped ==
  /\ pc = "return" =>
       \A i, j \in DOMAIN resolved : resolved[i].fn = resolved[j].fn => i = j
  /\ ~(pc = "raised" /\ RaisingCallback.tag = "fn"
         /\ RaisingCallback \in FnsOf(resolved))

ClaimedSocketType(key) ==
  CASE key = "onconnection" -> "net connection"
    [] key = "onread" -> "net client connection"
    [] OTHER -> "unknown"

\* C5: when resolveHandle returns for a handle whose socket record exposes a
\* file descriptor, every callable field of that record has an entry that
\* carries the descriptor and the type its field name gives: onconnection a
\* listener ("net connection"), onread a connection ("net client
\* connection"), any other field "unknown".
C5_SocketEntry ==
  (pc = "return" /\ heap[current].handle # None
     /\ heap[current].handle[1].fd # None) =>
    LET sock == heap[current].handle[1] IN
    \A f \in Range(sock.fields) :
      f.value.tag = "fn" =>
        \E k \in DOMAIN resolved :
          /\ resolved[k].fn = f.value
          /\ resolved[k].fd = sock.fd
          /\ resolved[k].type = Some(ClaimedSocketType(f.key))

\* C6: functionInfo of a callable the runtime gives no location for returns
\* an entry without location, named or anonymous; and the name it gives an
\* anonymous callable is the inferred name when that is not empty and else
\* "__unknown_function_name__".
C6_MissingLocation ==
  infoResult # None =>
    LET r == infoResult[1]
        got == origin[fnArg.id]
    IN /\ got = None => (~r.raised /\ r.value.location = None)
       /\ (fnArg.name = "" /\ ~r.raised) =>
            /\ r.value.name # ""
            /\ r.value.name = IF got[1].inferredName # "" THEN got[1].inferredName
                              ELSE "__unknown_function_name__"

\* semantic-version order on major.minor.patch
VersionLess(a, b) ==
  \/ a[1] < b[1]
  \/ a[1] = b[1] /\ a[2] < b[2]
  \/ a[1] = b[1] /\ a[2] = b[2] /\ a[3] < b[3]

\* C8: once hookSetInterval was called on a runtime whose version is
\* major.minor.patch, timers.setInterval is hooked exactly when the version
\* is below 1.6.2.
C8_HooksOnlyBelowOneSixTwo ==
  (hookCalls > 0 /\ Len(version) = 3) =>
    ((hookLayers > 0) = VersionLess(version, <<1, 6, 2>>))

====
